---- MODULE Spec2Model ----
(***************************************************************************)
(* Unfolder: the iterative extraction driver (SimpleExtractor.extract_all), *)
(* its extraction transaction (_extract_with_cleanup), the placement and    *)
(* classification helpers and the deferred deletion (_delete_archives),     *)
(* over a small explicit file-system.                                       *)
(*                                                                          *)
(* A file name is a sequence of one-character strings, a path a sequence    *)
(* of names below the source folder, the file system a function from the    *)
(* existing paths to "dir" or to the content of a file.                     *)
(***************************************************************************)
EXTENDS Naturals, Integers, Sequences, FiniteSets, TLC

VARIABLES
    fs,                 \* the tree below source_folder: path -> "dir" | content
    delete_after,       \* SimpleExtractor.delete_after
    maintain_hierarchy, \* SimpleExtractor.maintain_hierarchy
    HAS_RAR,            \* module flag: rarfile could be imported
    HAS_7Z,             \* module flag: py7zr could be imported
    processed_files,    \* SimpleExtractor.processed_files (set of path strings)
    pending_deletions,  \* SimpleExtractor.pending_deletions (list of paths)
    stats,              \* SimpleExtractor.stats
    round_num,          \* extract_all: round_num
    all_archives,       \* extract_all: the list built by the scan of this round
    idx,                \* extract_all: position in all_archives (enumerate index)
    extract_to,         \* extract_all: target resolved for the current archive
    file_size,          \* extract_all: size read for the current archive
    pc,                 \* position of the driver in extract_all
    run,                \* which driver (1 = first run, 2 = a second run on the same tree)
    faults,             \* number of environment faults (I/O errors) that have happened
    hist                \* observations of the run, read by the properties only

vars == <<fs, delete_after, maintain_hierarchy, HAS_RAR, HAS_7Z, processed_files,
          pending_deletions, stats, round_num, all_archives, idx, extract_to,
          file_size, pc, run, faults, hist>>

----------------------------------------------------------------------------
\* Bounds of the model

\* number of files the initial tree holds
MaxInitFiles == 2
\* number of environment faults (codec I/O error, failing removal) in a behaviour
MaxFaults == 1
\* cap on round_num: the scan of a round past it is not modelled
MaxRounds == 5

----------------------------------------------------------------------------
\* Strings

\* str.lower() on the characters file names are made of
Lower(ch) ==
    CASE ch = "A" -> "a"
      [] ch = "B" -> "b"
      [] ch = "G" -> "g"
      [] ch = "T" -> "t"
      [] ch = "R" -> "r"
      [] ch = "Z" -> "z"
      [] ch = "I" -> "i"
      [] ch = "P" -> "p"
      [] OTHER -> ch

LowerStr(s) == [i \in 1..Len(s) |-> Lower(s[i])]

\* str.endswith
EndsWith(s, suffix) ==
    /\ Len(s) >= Len(suffix)
    /\ SubSeq(s, Len(s) - Len(suffix) + 1, Len(s)) = suffix

\* the source folder as a string, and str(Path) of a path below it
source_folder == <<"r">>

RECURSIVE JoinNames(_)
JoinNames(p) ==
    IF p = <<>> THEN <<>>
    ELSE <<"/">> \o Head(p) \o JoinNames(Tail(p))

PathStr(p) == source_folder \o JoinNames(p)

\* Path.parent and Path.name of a path below the source folder
Parent(p) == SubSeq(p, 1, Len(p) - 1)
Name(p) == p[Len(p)]

\* str.rfind('.') as a 1-based position, 0 when there is no dot
RFindDot(name) ==
    LET dots == {i \in 1..Len(name) : name[i] = "."}
    IN  IF dots = {} THEN 0 ELSE CHOOSE i \in dots : \A j \in dots : j <= i

\* Path.stem: the name up to its last dot, unless that dot is the first or
\* the last character
Stem(name) ==
    LET i == RFindDot(name)
    IN  IF 1 < i /\ i < Len(name) THEN SubSeq(name, 1, i - 1) ELSE name

----------------------------------------------------------------------------
\* Archive Classifier

archive_extensions ==
    << <<".", "z", "i", "p">>,
       <<".", "r", "a", "r">>,
       <<".", "7", "z">>,
       <<".", "t", "a", "r">>,
       <<".", "g", "z">>,
       <<".", "b", "z", "2">>,
       <<".", "t", "g", "z">>,
       <<".", "t", "a", "r", ".", "g", "z">>,
       <<".", "t", "a", "r", ".", "b", "z", "2">> >>

\* mutant of _is_archive: the path is compared as it is spelled
IsArchiveCaseSensitive(file_path) ==
    \E i \in DOMAIN archive_extensions :
        EndsWith(PathStr(file_path), archive_extensions[i])

_is_archive(file_path) ==
    LET file_path_str == LowerStr(PathStr(file_path))
    IN  \E i \in DOMAIN archive_extensions :
            EndsWith(file_path_str, archive_extensions[i])

\* mutant of _get_extract_method: the suffix is compared as it is spelled
ExtractMethodAsSpelled(file_path) ==
    LET file_path_str == PathStr(file_path)
    IN  IF EndsWith(file_path_str, <<".", "z", "i", "p">>) THEN "zip"
        ELSE IF EndsWith(file_path_str, <<".", "r", "a", "r">>) THEN "rar"
        ELSE IF EndsWith(file_path_str, <<".", "7", "z">>) THEN "7z"
        ELSE "tar"

\* the extraction method chosen from the suffix
_get_extract_method(file_path) ==
    LET file_path_str == LowerStr(PathStr(file_path))
    IN  IF EndsWith(file_path_str, <<".", "z", "i", "p">>) THEN "zip"
        ELSE IF EndsWith(file_path_str, <<".", "r", "a", "r">>) THEN "rar"
        ELSE IF EndsWith(file_path_str, <<".", "7", "z">>) THEN "7z"
        ELSE "tar"

----------------------------------------------------------------------------
\* Placement Resolver

\* mutant of _get_extraction_path: the archive is extracted into its own
\* directory, not into a directory named after its stem
ExtractionPathParent(archive_path) == Parent(archive_path)

\* mutant of ExtractionPathIn: with the hierarchy maintained a nested
\* archive is extracted into the folder it lies in
ExtractionPathInPlace(hierarchy, archive_path) ==
    IF hierarchy /\ Parent(archive_path) # <<>>
    THEN Parent(archive_path)
    ELSE Append(Parent(archive_path), Stem(Name(archive_path)))

\* the body of _get_extraction_path for a value of self.maintain_hierarchy
ExtractionPathIn(hierarchy, archive_path) ==
    LET parent_dir == Parent(archive_path)
        stem == Stem(Name(archive_path))
        base_name == IF EndsWith(stem, <<".", "t", "a", "r">>)
                     THEN SubSeq(stem, 1, Len(stem) - 4)
                     ELSE stem
        \* Path / "" is the path itself
        joined == IF base_name = <<>> THEN parent_dir
                  ELSE Append(parent_dir, base_name)
    IN  IF hierarchy /\ Parent(archive_path) # <<>>
        THEN joined
        ELSE joined

_get_extraction_path(archive_path) ==
    ExtractionPathIn(maintain_hierarchy, archive_path)

----------------------------------------------------------------------------
\* File names of the model

a_zip == <<"a", ".", "z", "i", "p">>
b_zip == <<"b", ".", "z", "i", "p">>
o_zip == <<"o", ".", "z", "i", "p">>
t_zip == <<"t", ".", "z", "i", "p">>
t_tar_gz == <<"t", ".", "t", "a", "r", ".", "g", "z">>
c_rar == <<"c", ".", "r", "a", "r">>
d_7z == <<"d", ".", "7", "z">>
f_txt == <<"f", ".", "t", "x", "t">>
g_txt == <<"g", ".", "t", "x", "t">>
n_a == <<"a">>
n_o == <<"o">>
n_t == <<"t">>

----------------------------------------------------------------------------
\* File contents. A content is the identity of a byte string; Catalogue says
\* what a codec finds in it: its format, the entries it encodes in stored
\* order, how many of them decode before the stream turns out corrupted
\* (all of them for an intact archive), and its size in bytes.

Entry(path, node) == [path |-> path, node |-> node]

Catalogue ==
    [c \in {"txt", "zF", "zB", "zT", "zE", "zA", "zO", "tF", "tG", "rF", "sF"} |->
        CASE c = "txt" -> [fmt |-> "none", entries |-> <<>>, good |-> 0, size |-> 1]
          [] c = "zF" -> [fmt |-> "zip", entries |-> <<Entry(<<f_txt>>, "txt")>>,
                          good |-> 1, size |-> 2]
          [] c = "zB" -> [fmt |-> "zip", entries |-> <<Entry(<<b_zip>>, "zF")>>,
                          good |-> 1, size |-> 3]
          [] c = "zT" -> [fmt |-> "zip",
                          entries |-> <<Entry(<<f_txt>>, "txt"), Entry(<<g_txt>>, "txt")>>,
                          good |-> 1, size |-> 2]
          [] c = "zE" -> [fmt |-> "zip", entries |-> <<>>, good |-> 0, size |-> 1]
          [] c = "zA" -> [fmt |-> "zip",
                          entries |-> <<Entry(<<b_zip>>, "zF"), Entry(<<g_txt>>, "txt")>>,
                          good |-> 2, size |-> 4]
          [] c = "zO" -> [fmt |-> "zip", entries |-> <<Entry(<<a_zip>>, "zA")>>,
                          good |-> 1, size |-> 5]
          [] c = "tF" -> [fmt |-> "tar", entries |-> <<Entry(<<f_txt>>, "txt")>>,
                          good |-> 1, size |-> 2]
          [] c = "tG" -> [fmt |-> "tar",
                          entries |-> <<Entry(<<n_a>>, "dir"), Entry(<<n_a, g_txt>>, "txt")>>,
                          good |-> 2, size |-> 3]
          [] c = "rF" -> [fmt |-> "rar", entries |-> <<Entry(<<f_txt>>, "txt")>>,
                          good |-> 1, size |-> 2]
          [] c = "sF" -> [fmt |-> "7z", entries |-> <<Entry(<<f_txt>>, "txt")>>,
                          good |-> 1, size |-> 2]]

----------------------------------------------------------------------------
\* File system

Exists(f, p) == p \in DOMAIN f
IsDir(f, p) == p \in DOMAIN f /\ f[p] = "dir"
\* "locked" is a directory the process may not list
IsFile(f, p) == p \in DOMAIN f /\ f[p] \notin {"dir", "locked"}

IsPrefix(d, p) == Len(d) <= Len(p) /\ SubSeq(p, 1, Len(d)) = d

\* Path.iterdir: the direct children of a directory
Children(f, d) == {p \in DOMAIN f : Len(p) = Len(d) + 1 /\ IsPrefix(d, p)}

\* a path with everything below it
Subtree(f, p) == {q \in DOMAIN f : IsPrefix(p, q)}

Restrict(f, S) == [p \in S |-> f[p]]

\* unlink of a file, rmtree of a directory
RemoveAll(f, items) ==
    Restrict(f, {q \in DOMAIN f : \A p \in items : ~IsPrefix(p, q)})

\* write (or overwrite) one node
Put(f, p, node) == [q \in DOMAIN f \cup {p} |-> IF q = p THEN node ELSE f[q]]

\* the proper ancestors of target \o rel that lie below target
Ancestors(target, rel) == {target \o SubSeq(rel, 1, k) : k \in 1..(Len(rel) - 1)}

\* mkdir -p of a set of directories
MakeDirs(f, dirs) == [q \in DOMAIN f \cup dirs |-> IF q \in DOMAIN f THEN f[q] ELSE "dir"]

----------------------------------------------------------------------------
\* Codec capability

Min(a, b) == IF a <= b THEN a ELSE b

\* extractall: writes the entries in stored order under the target, creating
\* the directories on the way. It stops with an error at the first entry past
\* `limit` (corrupted stream, I/O error) and at an entry whose place is taken
\* by a node of the other kind; what was written before stays.
RECURSIVE WriteEntries(_, _, _, _, _)
WriteEntries(f, target, entries, i, limit) ==
    IF i > Len(entries) THEN [fs |-> f, ok |-> TRUE]
    ELSE IF i > limit THEN [fs |-> f, ok |-> FALSE]
    ELSE
        LET e == entries[i]
            full == target \o e.path
            anc == Ancestors(target, e.path)
            blocked == \/ \E a \in anc : IsFile(f, a)
                       \/ e.node = "dir" /\ IsFile(f, full)
                       \/ e.node # "dir" /\ IsDir(f, full)
            f1 == MakeDirs(f, anc)
            f2 == IF e.node = "dir" THEN MakeDirs(f1, {full}) ELSE Put(f1, full, e.node)
        IN  IF blocked THEN [fs |-> f, ok |-> FALSE]
            ELSE WriteEntries(f2, target, entries, i + 1, limit)

\* One codec call: open the archive as format fmt and extract it. `stop` is
\* the number of entries after which the environment fails the call (disk
\* full, permission denied), -1 when it does not. Every error is caught by
\* the codec wrapper and turned into False.
Decode(f, archive_path, target, fmt, stop) ==
    IF ~IsFile(f, archive_path) THEN [fs |-> f, ok |-> FALSE]
    ELSE
        LET c == Catalogue[f[archive_path]]
            limit == IF stop < 0 THEN c.good ELSE Min(c.good, stop)
        IN  IF c.fmt # fmt THEN [fs |-> f, ok |-> FALSE]
            ELSE WriteEntries(f, target, c.entries, 1, limit)

\* mutant of _extract_zip: the archive is removed as soon as it is extracted
ExtractZipAndUnlink(f, archive_path, target, stop) ==
    LET r == Decode(f, archive_path, target, "zip", stop)
    IN  IF r.ok THEN [r EXCEPT !.fs = RemoveAll(r.fs, {archive_path})] ELSE r

_extract_zip(f, archive_path, target, stop) ==
    Decode(f, archive_path, target, "zip", stop)

_extract_rar(f, archive_path, target, stop) ==
    IF ~HAS_RAR THEN [fs |-> f, ok |-> FALSE]
    ELSE Decode(f, archive_path, target, "rar", stop)

_extract_7z(f, archive_path, target, stop) ==
    IF ~HAS_7Z THEN [fs |-> f, ok |-> FALSE]
    ELSE Decode(f, archive_path, target, "7z", stop)

_extract_tar(f, archive_path, target, stop) ==
    Decode(f, archive_path, target, "tar", stop)

\* extract_method(archive_path, extract_to)
CallMethod(extract_method, f, archive_path, target, stop) ==
    CASE extract_method = "zip" -> _extract_zip(f, archive_path, target, stop)
      [] extract_method = "rar" -> _extract_rar(f, archive_path, target, stop)
      [] extract_method = "7z" -> _extract_7z(f, archive_path, target, stop)
      [] OTHER -> _extract_tar(f, archive_path, target, stop)

_get_file_size(f, file_path) ==
    IF Exists(f, file_path) /\ f[file_path] # "dir"
    THEN Catalogue[f[file_path]].size
    ELSE 0

----------------------------------------------------------------------------
\* Transactional Extractor

\* The environment faults of one transaction: pre = listing or creating the
\* target raises, stop = the codec call fails after that many entries (-1:
\* it does not), stuck = the new items whose removal fails during cleanup
\* (and the target itself when its rmdir fails).
NoFault == [pre |-> FALSE, stop |-> -1, stuck |-> {}]

FaultCount(flt) ==
    (IF flt.pre THEN 1 ELSE 0) + (IF flt.stop >= 0 THEN 1 ELSE 0) + Cardinality(flt.stuck)

\* existing_items as the snapshot before the call
ExistingItems(f, target) == IF Exists(f, target) THEN Children(f, target) ELSE {}

\* mutant of Cleanup: the new items are removed, the directory this call
\* created is left behind
CleanupLeavesDir(f, target, existing_items, created_extraction_dir, stuck) ==
    RemoveAll(f, (Children(f, target) \ existing_items) \ stuck)

\* mutant of Cleanup: the target is removed with everything in it
CleanupWholeTarget(f, target, existing_items, created_extraction_dir, stuck) ==
    RemoveAll(f, {target})

\* the cleanup of the except branch
Cleanup(f, target, existing_items, created_extraction_dir, stuck) ==
    LET new_items == Children(f, target) \ existing_items
        f1 == RemoveAll(f, new_items \ stuck)
    IN  IF created_extraction_dir /\ Children(f1, target) = {} /\ target \notin stuck
        THEN RemoveAll(f1, {target})
        ELSE f1

\* mutant of _extract_with_cleanup: the call succeeds as soon as the
\* extraction method returns True
ExtractWithoutGuard(f, archive_path, target, extract_method, flt) ==
    IF IsFile(f, target) \/ flt.pre
    THEN [fs |-> f, ok |-> FALSE, cleaned |-> 0, called |-> FALSE,
          codecOk |-> FALSE, new_items |-> {}]
    ELSE
        LET existing_items == ExistingItems(f, target)
            created_extraction_dir == ~Exists(f, target)
            f1 == IF created_extraction_dir THEN MakeDirs(f, {target}) ELSE f
            r == CallMethod(extract_method, f1, archive_path, target, flt.stop)
            new_items == Children(r.fs, target) \ existing_items
        IN  IF r.ok
            THEN [fs |-> r.fs, ok |-> TRUE, cleaned |-> 0, called |-> TRUE,
                  codecOk |-> TRUE, new_items |-> new_items]
            ELSE [fs |-> Cleanup(r.fs, target, existing_items,
                                 created_extraction_dir, flt.stuck),
                  ok |-> FALSE, cleaned |-> 1, called |-> TRUE,
                  codecOk |-> r.ok, new_items |-> new_items]

\* _extract_with_cleanup: the tree afterwards (fs), the value returned (ok)
\* and the increment of stats['cleaned_up'] (cleaned); for the record also
\* whether the extraction method was called, what it returned, and the new
\* items found in the target before any cleanup
_extract_with_cleanup(f, archive_path, target, extract_method, flt) ==
    IF IsFile(f, target) \/ flt.pre
    THEN \* iterdir or mkdir raises; in the handler iterdir raises again, or
         \* existing_items is unbound: the cleanup warning path
         [fs |-> f, ok |-> FALSE, cleaned |-> 0, called |-> FALSE,
          codecOk |-> FALSE, new_items |-> {}]
    ELSE
        LET existing_items == ExistingItems(f, target)
            created_extraction_dir == ~Exists(f, target)
            f1 == IF created_extraction_dir THEN MakeDirs(f, {target}) ELSE f
            r == CallMethod(extract_method, f1, archive_path, target, flt.stop)
            new_items == Children(r.fs, target) \ existing_items
        IN  IF r.ok /\ new_items # {}
            THEN [fs |-> r.fs, ok |-> TRUE, cleaned |-> 0, called |-> TRUE,
                  codecOk |-> TRUE, new_items |-> new_items]
            ELSE [fs |-> Cleanup(r.fs, target, existing_items,
                                 created_extraction_dir, flt.stuck),
                  ok |-> FALSE, cleaned |-> 1, called |-> TRUE,
                  codecOk |-> r.ok, new_items |-> new_items]

\* the faults the environment can inject into a transaction on this tree:
\* those that change what the call does
FaultChoices(f, archive_path, target, extract_method, budget) ==
    LET n == IF IsFile(f, archive_path) THEN Len(Catalogue[f[archive_path]].entries) ELSE 0
        stops == {-1} \cup (IF budget > 0 THEN 0..(n - 1) ELSE {})
        f1 == MakeDirs(f, {target})
        \* what the cleanup would have to remove: the new items, and the
        \* target when this call creates it
        items(stop) ==
            IF IsFile(f, target) THEN {}
            ELSE LET r == CallMethod(extract_method, f1, archive_path, target, stop)
                     new_items == Children(r.fs, target) \ ExistingItems(f, target)
                 IN  IF r.ok /\ new_items # {} THEN {}
                     ELSE new_items \cup (IF Exists(f, target) THEN {} ELSE {target})
    IN  {flt \in UNION {[pre : {FALSE}, stop : {st}, stuck : SUBSET items(st)] : st \in stops} :
            FaultCount(flt) <= budget}
        \cup (IF budget > 0 /\ ~IsFile(f, target)
              THEN {[pre |-> TRUE, stop |-> -1, stuck |-> {}]} ELSE {})

----------------------------------------------------------------------------
\* Deferred Deletion Manager

\* mutant of DeleteLoop: the first unlink that raises ends the loop
RECURSIVE DeleteLoopAbort(_, _, _, _, _, _)
DeleteLoopAbort(f, pending, i, failing, deleted, printed) ==
    IF i > Len(pending) THEN [fs |-> f, deleted |-> deleted, printed |-> printed]
    ELSE
        LET archive_path == pending[i]
        IN  IF ~Exists(f, archive_path)
            THEN DeleteLoopAbort(f, pending, i + 1, failing, deleted, printed)
            ELSE IF archive_path \in failing \/ ~IsFile(f, archive_path)
            THEN [fs |-> f, deleted |-> deleted,
                  printed |-> Append(printed, [path |-> archive_path, ok |-> FALSE])]
            ELSE DeleteLoopAbort(RemoveAll(f, {archive_path}), pending, i + 1,
                                 failing, deleted + 1,
                                 Append(printed, [path |-> archive_path, ok |-> TRUE]))

\* the loop of _delete_archives over pending_deletions[i..]; `failing` are
\* the paths whose unlink raises; `printed` are the lines written so far, one
\* for each unlink tried
RECURSIVE DeleteLoop(_, _, _, _, _, _)
DeleteLoop(f, pending, i, failing, deleted, printed) ==
    IF i > Len(pending) THEN [fs |-> f, deleted |-> deleted, printed |-> printed]
    ELSE
        LET archive_path == pending[i]
        IN  IF ~Exists(f, archive_path)
            THEN DeleteLoop(f, pending, i + 1, failing, deleted, printed)
            ELSE IF archive_path \in failing \/ ~IsFile(f, archive_path)
            THEN DeleteLoop(f, pending, i + 1, failing, deleted,
                            Append(printed, [path |-> archive_path, ok |-> FALSE]))
            ELSE DeleteLoop(RemoveAll(f, {archive_path}), pending, i + 1, failing,
                            deleted + 1,
                            Append(printed, [path |-> archive_path, ok |-> TRUE]))

_delete_archives(f, pending, failing) ==
    IF ~delete_after \/ pending = <<>>
    THEN [fs |-> f, deleted |-> 0, printed |-> <<>>]
    ELSE DeleteLoop(f, pending, 1, failing, 0, <<>>)

----------------------------------------------------------------------------
\* The scan of one round: os.walk, top-down, the entries of a directory in
\* the order the operating system lists them (any order)

Perms(S) ==
    {s \in [1..Cardinality(S) -> S] : \A i, j \in 1..Cardinality(S) : i # j => s[i] # s[j]}

\* mutant of Wanted: the scan collects every unprocessed file
WantedAnyFile(f, p, processed) ==
    IsFile(f, p) /\ PathStr(p) \notin processed

\* mutant of Wanted: the scan does not look at the processed set
WantedAgain(f, p, processed) ==
    IsFile(f, p) /\ _is_archive(p)

Wanted(f, p, processed) ==
    IsFile(f, p) /\ _is_archive(p) /\ PathStr(p) \notin processed

\* mutant of WalkDirs: the scan does not descend into the subfolders
WalkDirsNone(f, dirs, processed) == {<<>>}

RECURSIVE Walk(_, _, _)
RECURSIVE WalkDirs(_, _, _)
\* mutant of Walk: the scan lists the files of the folder itself only
WalkFolderOnly(f, d, processed) ==
    Perms({p \in Children(f, d) : Wanted(f, p, processed)})

Walk(f, d, processed) ==
    LET files == {p \in Children(f, d) : Wanted(f, p, processed)}
        dirs == {p \in Children(f, d) : IsDir(f, p)}
    IN  \* scandir of a missing or unreadable directory raises, os.walk has
        \* no onerror and goes on without it
        IF ~IsDir(f, d) THEN {<<>>}
        ELSE {fp \o rest : fp \in Perms(files), rest \in WalkDirs(f, dirs, processed)}

WalkDirs(f, dirs, processed) ==
    IF dirs = {} THEN {<<>>}
    ELSE UNION {{w \o rest : w \in Walk(f, d, processed),
                             rest \in WalkDirs(f, dirs \ {d}, processed)} : d \in dirs}

----------------------------------------------------------------------------
\* Initial trees

Place(path, node) == [path |-> path, node |-> node]

\* the files an initial tree is made of
InitPlacements ==
    { Place(<<a_zip>>, "zB"),           \* a.zip holding b.zip holding f.txt
      Place(<<a_zip>>, "txt"),          \* not a zip file at all
      Place(<<a_zip>>, "zT"),           \* corrupted after its first entry
      Place(<<t_zip>>, "zF"),
      Place(<<t_tar_gz>>, "tF"),        \* same entries as t.zip
      Place(<<t_tar_gz>>, "tG"),        \* other entries than t.zip
      Place(<<n_t>>, "txt"),            \* a plain file where t.* extract to
      Place(<<n_t, f_txt>>, "txt"),     \* a target already populated
      Place(<<o_zip>>, "zO"),
      Place(<<n_o, n_a, b_zip>>, "zF"),
      Place(<<n_o, n_a, b_zip>>, "zE") }     \* an empty zip where o/a.zip writes b.zip

ProperAncestors(p) == {SubSeq(p, 1, k) : k \in 0..(Len(p) - 1)}

TreeOf(S) ==
    LET files == {pl.path : pl \in S}
        dirs == UNION {ProperAncestors(p) : p \in files}
    IN  [p \in files \cup dirs |->
            IF p \in dirs THEN "dir" ELSE (CHOOSE pl \in S : pl.path = p).node]

InitTrees ==
    {TreeOf(S) : S \in {T \in SUBSET InitPlacements :
        /\ Cardinality(T) <= MaxInitFiles
        /\ \A x, y \in T : x.path = y.path => x = y
        /\ \A x, y \in T : x.path \notin ProperAncestors(y.path)}}

\* An optional library is installed or not. Where no archive of the tree is
\* handed to its codec the flag is never read, and one value stands for both.
FlagValues(tree, method) ==
    IF \E p \in DOMAIN tree : tree[p] # "dir" /\ _is_archive(p) /\ _get_extract_method(p) = method
    THEN BOOLEAN
    ELSE {FALSE}

ZeroStats == [extracted |-> 0, failed |-> 0, deleted |-> 0, total_size |-> 0, cleaned_up |-> 0]

NoCall == [called |-> FALSE, archive |-> <<>>, target |-> <<>>, existed |-> FALSE,
           items |-> {}, merge |-> FALSE, codecOk |-> FALSE, partial |-> {},
           stuck |-> {}, ok |-> FALSE, afterExists |-> FALSE, afterItems |-> {}]

\* the observations a new driver starts with
NewHist(tree, prev) ==
    [fs0 |-> tree,            \* the tree this run started on
     attempts |-> <<>>,       \* the paths handed to _extract_with_cleanup, in order
     contents |-> <<>>,       \* what each of them held when it was handed over
     succeeded |-> {},        \* those whose extraction returned True
     filled |-> {},           \* the targets of the successful extractions
     rewritten |-> {},        \* attempted paths a later extraction wrote again
     codecCalls |-> 0,        \* calls of an extraction method
     deleteCalls |-> 0,       \* calls of _delete_archives
     unlinked |-> {},         \* paths removed by _delete_archives
     last |-> NoCall,         \* the last call of _extract_with_cleanup
     report |-> <<>>,         \* the lines printed by preview_extraction
     flush |-> <<>>,          \* the lines printed by _delete_archives
     fresh |-> {},            \* archives the extractions of this round wrote
     freshPrev |-> {},        \* those of the round before the last scan
     prev |-> prev]           \* succeeded and final tree of the run before

NoPrev == [succeeded |-> {}, fs |-> <<>>, ran |-> FALSE]

\* SimpleExtractor.__init__ on one of the trees
InitOn(trees, start) ==
    /\ fs \in trees
    /\ delete_after \in BOOLEAN
    /\ maintain_hierarchy \in BOOLEAN
    /\ HAS_RAR \in FlagValues(fs, "rar")
    /\ HAS_7Z \in FlagValues(fs, "7z")
    /\ processed_files = {}
    /\ pending_deletions = <<>>
    /\ stats = ZeroStats
    /\ round_num = 1
    /\ all_archives = <<>>
    /\ idx = 0
    /\ extract_to = <<>>
    /\ file_size = 0
    /\ pc = start
    /\ run = 1
    /\ faults = 0
    /\ hist = NewHist(fs, NoPrev)

\* SimpleExtractor(folder) on a tree of the model
Init == InitOn(InitTrees, "scan")

----------------------------------------------------------------------------
\* File names for the classifier and the placement: the names of
\* test_archive_detection, the other extensions of the list, the same in
\* other letter cases, names that are an extension and nothing else, and
\* names that hold an extension without ending in it

TestNames ==
    { <<"b", ".", "z", "i", "p">>,
      <<"b", ".", "r", "a", "r">>,
      <<"b", ".", "7", "z">>,
      <<"b", ".", "t", "a", "r">>,
      <<"b", ".", "g", "z">>,
      <<"b", ".", "b", "z", "2">>,
      <<"b", ".", "t", "g", "z">>,
      <<"b", ".", "t", "a", "r", ".", "g", "z">>,
      <<"b", ".", "t", "a", "r", ".", "b", "z", "2">>,
      <<"b", ".", "Z", "I", "P">>,
      <<"b", ".", "R", "a", "r">>,
      <<"b", ".", "7", "Z">>,
      <<"b", ".", "T", "G", "Z">>,
      <<"b", ".", "T", "a", "r", ".", "G", "z">>,
      <<"b", ".", "T", "A", "R", ".", "G", "Z">>,
      <<"b", ".", "t", "a", "r", ".", "G", "Z">>,
      <<"b", ".", "T", "A", "R", ".", "b", "z", "2">>,
      <<".", "z", "i", "p">>,
      <<".", "t", "a", "r", ".", "g", "z">>,
      <<"b", ".", "t", "x", "t">>,
      <<"b", ".", "p", "d", "f">>,
      <<"b">>,
      <<"z", "i", "p">>,
      <<"b", "g", "z">>,
      <<"b", ".", "z", "i", "p", ".", "t", "x", "t">>,
      <<"b", ".", "t", "a", "r", ".", "g", "z", ".", "t", "x", "t">> }

\* a content of the format the extraction method for that name reads
NameContent(path) ==
    IF ~_is_archive(path) THEN "txt"
    ELSE CASE _get_extract_method(path) = "zip" -> "zF"
           [] _get_extract_method(path) = "rar" -> "rF"
           [] _get_extract_method(path) = "7z" -> "sF"
           [] OTHER -> "tF"

\* one file of that name, in the source folder or in its subfolder a
NameTrees ==
    {TreeOf({Place(Append(d, n), NameContent(Append(d, n)))}) :
        n \in TestNames, d \in {<<>>, <<n_a>>}}

\* SimpleExtractor(folder) on a folder holding one file
NameInit == InitOn(NameTrees, "scan")

----------------------------------------------------------------------------
\* Extraction Driver

\* mutant of ScanDone: the loop is left after the first scan, whatever it found
ScanDoneAlways(found) == TRUE

\* `if not all_archives: break`
ScanDone(found) == found = <<>>

\* the os.walk loop at the top of a round, and the test that ends the loop
Scan ==
    /\ pc = "scan"
    /\ round_num <= MaxRounds
    /\ \E found \in Walk(fs, <<>>, processed_files) :
        /\ all_archives' = found
        /\ IF ScanDone(found)
           THEN pc' = "delete" /\ idx' = 0
           ELSE pc' = "mark" /\ idx' = 1
    /\ hist' = [hist EXCEPT !.fresh = {}, !.freshPrev = hist.fresh]
    /\ UNCHANGED <<fs, delete_after, maintain_hierarchy, HAS_RAR, HAS_7Z,
                   processed_files, pending_deletions, stats, round_num,
                   extract_to, file_size, run, faults>>

\* mutant of MarkProcessed: the archive is not recorded
MarkNothing(processed, archive_path) == processed

\* mutant of MarkProcessed: the folder of the archive is recorded, not the archive
MarkParent(processed, archive_path) == processed \cup {PathStr(Parent(archive_path))}

\* `self.processed_files.add(str(archive_path))`
MarkProcessed(processed, archive_path) == processed \cup {PathStr(archive_path)}

\* loop body, first half: mark as processed, resolve the target, read the size
Mark ==
    /\ pc = "mark"
    /\ LET archive_path == all_archives[idx]
       IN  /\ processed_files' = MarkProcessed(processed_files, archive_path)
           /\ extract_to' = _get_extraction_path(archive_path)
           /\ file_size' = _get_file_size(fs, archive_path)
    /\ pc' = "extract"
    /\ UNCHANGED <<fs, delete_after, maintain_hierarchy, HAS_RAR, HAS_7Z,
                   pending_deletions, stats, round_num, all_archives, idx, run,
                   faults, hist>>

\* mutant of Account: the size is added for every archive handed to the
\* extraction, whatever the outcome
AccountEverySize(st, ok, size, cleaned) ==
    IF ok
    THEN [st EXCEPT !.extracted = @ + 1, !.total_size = @ + size]
    ELSE [st EXCEPT !.failed = @ + 1, !.cleaned_up = @ + cleaned, !.total_size = @ + size]

\* mutant of Account: a failed extraction is not counted
AccountSuccessOnly(st, ok, size, cleaned) ==
    IF ok
    THEN [st EXCEPT !.extracted = @ + 1, !.total_size = @ + size]
    ELSE st

\* mutant of Account: the cleanup counter moves on every extraction
AccountCleanedAlways(st, ok, size, cleaned) ==
    IF ok
    THEN [st EXCEPT !.extracted = @ + 1, !.total_size = @ + size, !.cleaned_up = @ + 1]
    ELSE [st EXCEPT !.failed = @ + 1, !.cleaned_up = @ + 1]

\* what a successful or failed extraction does to the statistics
Account(st, ok, size, cleaned) ==
    IF ok
    THEN [st EXCEPT !.extracted = @ + 1, !.total_size = @ + size]
    ELSE [st EXCEPT !.failed = @ + 1, !.cleaned_up = @ + cleaned]

\* mutant of Queue: the archive is queued whatever the outcome
QueueAlways(pending, ok, archive_path) ==
    IF delete_after THEN Append(pending, archive_path) ELSE pending

\* mutant of Queue: a successful archive is queued whether or not deletion
\* was requested
QueueUnasked(pending, ok, archive_path) ==
    IF ok THEN Append(pending, archive_path) ELSE pending

\* mutant of Queue: a successful archive is queued twice
QueueTwice(pending, ok, archive_path) ==
    IF ok /\ delete_after THEN Append(Append(pending, archive_path), archive_path)
    ELSE pending

\* the deletion queue after an extraction
Queue(pending, ok, archive_path) ==
    IF ok /\ delete_after THEN Append(pending, archive_path) ELSE pending

\* the faults the environment may still inject: MaxFaults in all, during
\* the first run
FaultBudget == IF run = 1 THEN MaxFaults - faults ELSE 0

\* mutant of AfterExtract: a failed extraction ends the loop
AfterExtractAbort(ok, i, n) ==
    IF ~ok THEN "delete" ELSE IF i < n THEN "mark" ELSE "scan"

\* where the driver goes after an archive, whatever the outcome: to the next
\* archive of the round, or past the last one to the scan of the next round
AfterExtract(ok, i, n) == IF i < n THEN "mark" ELSE "scan"

\* the paths the entries of the archive at archive_path are written to
EntryPaths(f, archive_path, target) ==
    IF IsFile(f, archive_path)
    THEN LET es == Catalogue[f[archive_path]].entries
         IN  {target \o es[i].path : i \in DOMAIN es}
    ELSE {}

\* loop body, second half: extract with cleanup, count, queue for deletion;
\* after the last archive of the round, round_num += 1 and back to the scan
Extract ==
    /\ pc = "extract"
    /\ LET archive_path == all_archives[idx]
           extract_method == _get_extract_method(archive_path)
       IN  \E flt \in FaultChoices(fs, archive_path, extract_to, extract_method,
                                   FaultBudget) :
            \E r \in {_extract_with_cleanup(fs, archive_path, extract_to,
                                           extract_method, flt)} :
            LET seen == {hist.attempts[i] : i \in DOMAIN hist.attempts}
            IN  /\ fs' = r.fs
                /\ stats' = Account(stats, r.ok, file_size, r.cleaned)
                /\ pending_deletions' = Queue(pending_deletions, r.ok, archive_path)
                /\ faults' = faults + FaultCount(flt)
                /\ pc' = AfterExtract(r.ok, idx, Len(all_archives))
                /\ hist' = [hist EXCEPT
                       !.attempts = Append(@, archive_path),
                       !.contents = Append(@, fs[archive_path]),
                       !.succeeded = IF r.ok THEN @ \cup {archive_path} ELSE @,
                       !.filled = IF r.ok THEN @ \cup {extract_to} ELSE @,
                       !.rewritten = IF r.ok
                                     THEN @ \cup (seen \cap EntryPaths(fs, archive_path,
                                                                       extract_to))
                                     ELSE @,
                       !.codecCalls = IF r.called THEN @ + 1 ELSE @,
                       !.fresh = @ \cup {p \in EntryPaths(fs, archive_path, extract_to) :
                                            /\ IsFile(r.fs, p) /\ _is_archive(p)
                                            /\ r.ok \/ ~Exists(fs, p)},
                       !.last = [called |-> TRUE, archive |-> archive_path,
                                 target |-> extract_to,
                                 existed |-> Exists(fs, extract_to),
                                 items |-> ExistingItems(fs, extract_to),
                                 merge |-> extract_to \in hist.filled,
                                 codecOk |-> r.codecOk,
                                 partial |-> r.new_items,
                                 stuck |-> flt.stuck,
                                 ok |-> r.ok,
                                 afterExists |-> Exists(r.fs, extract_to),
                                 afterItems |-> ExistingItems(r.fs, extract_to)]]
    /\ IF pc' = "mark"
       THEN idx' = idx + 1 /\ round_num' = round_num
       ELSE idx' = 0 /\ round_num' = round_num + 1
    /\ UNCHANGED <<delete_after, maintain_hierarchy, HAS_RAR, HAS_7Z,
                   processed_files, all_archives, extract_to, file_size, run>>

\* after the loop: _delete_archives, then the summary
Delete ==
    /\ pc = "delete"
    /\ \E failing \in SUBSET {pending_deletions[i] : i \in DOMAIN pending_deletions} :
        /\ failing # {} => delete_after
        /\ \A p \in failing : IsFile(fs, p)
        /\ Cardinality(failing) <= FaultBudget
        /\ \E r \in {_delete_archives(fs, pending_deletions, failing)} :
               /\ fs' = r.fs
               /\ stats' = [stats EXCEPT !.deleted = @ + r.deleted]
               /\ faults' = faults + Cardinality(failing)
               /\ hist' = [hist EXCEPT !.deleteCalls = @ + 1,
                                       !.unlinked = DOMAIN fs \ DOMAIN r.fs,
                                       !.flush = r.printed]
    /\ pc' = "done"
    /\ UNCHANGED <<delete_after, maintain_hierarchy, HAS_RAR, HAS_7Z,
                   processed_files, pending_deletions, round_num, all_archives,
                   idx, extract_to, file_size, run>>

\* a new SimpleExtractor, deletion disabled as in the run before, on the tree
\* the finished run left (a first run the environment did not disturb)
NewRun ==
    /\ pc = "done"
    /\ run = 1
    /\ ~delete_after
    /\ faults = 0
    /\ run' = run + 1
    /\ processed_files' = {}
    /\ pending_deletions' = <<>>
    /\ stats' = ZeroStats
    /\ round_num' = 1
    /\ all_archives' = <<>>
    /\ idx' = 0
    /\ extract_to' = <<>>
    /\ file_size' = 0
    /\ pc' = "scan"
    /\ hist' = NewHist(fs, [succeeded |-> hist.succeeded, fs |-> fs, ran |-> TRUE])
    /\ UNCHANGED <<fs, delete_after, maintain_hierarchy, HAS_RAR, HAS_7Z, faults>>

Next == Scan \/ Mark \/ Extract \/ Delete \/ NewRun

Spec == Init /\ [][Next]_vars

\* another process removes an archive that waits in the deletion queue,
\* between the end of the loop and the deletions
Vanish ==
    /\ pc = "delete"
    /\ delete_after
    /\ \E p \in {pending_deletions[i] : i \in DOMAIN pending_deletions} :
        /\ IsFile(fs, p)
        /\ fs' = RemoveAll(fs, {p})
    /\ UNCHANGED <<delete_after, maintain_hierarchy, HAS_RAR, HAS_7Z,
                   processed_files, pending_deletions, stats, round_num,
                   all_archives, idx, extract_to, file_size, pc, run, faults, hist>>

FlushInit == Init /\ delete_after

FlushNext == Scan \/ Mark \/ Extract \/ Vanish \/ Delete

\* the driver with deletion requested, on a tree other processes write too
FlushSpec == FlushInit /\ [][FlushNext]_vars

\* the driver on the folders holding one named file
NameSpec == NameInit /\ [][Next]_vars

----------------------------------------------------------------------------
\* main: the check of the source folder before the driver is built

\* a source folder that does not exist, and one that exists and cannot be read
MissingRoot == <<>>
LockedRoot == <<>> :> "locked"

RootTrees == NameTrees \cup {MissingRoot, LockedRoot}

RootInit == InitOn(RootTrees, "main")

\* `if not os.path.exists(source_folder): ... sys.exit(1)`, and otherwise
\* SimpleExtractor(...).extract_all()
Main ==
    /\ pc = "main"
    /\ pc' = IF Exists(fs, <<>>) THEN "scan" ELSE "exit"
    /\ UNCHANGED <<fs, delete_after, maintain_hierarchy, HAS_RAR, HAS_7Z,
                   processed_files, pending_deletions, stats, round_num,
                   all_archives, idx, extract_to, file_size, run, faults, hist>>

RootNext == Main \/ Next

RootSpec == RootInit /\ [][RootNext]_vars


----------------------------------------------------------------------------
\* Properties

----------------------------------------------------------------------------
\* Dry run: main with --dry-run calls preview_extraction and exits

\* mutant of ReportLine: the preview shows the archive's own folder as target
ReportLineParent(f, archive) ==
    [name |-> Name(archive), size |-> _get_file_size(f, archive),
     from |-> Parent(archive), to |-> Parent(archive)]

\* the lines printed for one archive: name, size, From, To
ReportLine(f, archive) ==
    [name |-> Name(archive), size |-> _get_file_size(f, archive),
     from |-> Parent(archive), to |-> _get_extraction_path(archive)]

\* `temp_extractor = SimpleExtractor(source_folder)`: the defaults of __init__
PreviewNew ==
    /\ pc = "scan"
    /\ run = 1
    /\ round_num = 1
    /\ delete_after' = FALSE
    /\ maintain_hierarchy' = FALSE
    /\ pc' = "preview"
    /\ UNCHANGED <<fs, HAS_RAR, HAS_7Z, processed_files, pending_deletions, stats,
                   round_num, all_archives, idx, extract_to, file_size, run,
                   faults, hist>>

\* the os.walk loop of preview_extraction and the loop that prints the report
Preview ==
    /\ pc = "preview"
    /\ \E found \in Walk(fs, <<>>, {}) :
        hist' = [hist EXCEPT !.report = [i \in DOMAIN found |-> ReportLine(fs, found[i])]]
    /\ pc' = "previewed"
    /\ UNCHANGED <<fs, delete_after, maintain_hierarchy, HAS_RAR, HAS_7Z,
                   processed_files, pending_deletions, stats, round_num,
                   all_archives, idx, extract_to, file_size, run, faults>>

PreviewNext == PreviewNew \/ Preview

PreviewSpec == Init /\ [][PreviewNext]_vars

----------------------------------------------------------------------------

Attempted == {hist.attempts[i] : i \in DOMAIN hist.attempts}
Failed == Attempted \ hist.succeeded
Pending == {pending_deletions[i] : i \in DOMAIN pending_deletions}
InLoop == pc \in {"scan", "mark", "extract"}

\* C1: what the deletion step removes are paths of pending_deletions, which
\* are archives extracted successfully in this run; an archive whose
\* extraction failed in this run is still on disk, in every state of the run.
C1_OnlySucceededDeleted ==
    /\ hist.unlinked \subseteq Pending
    /\ Pending \subseteq hist.succeeded
    /\ \A p \in Failed : p \notin hist.unlinked /\ IsFile(fs, p)

\* C1 witness: a run with deletion enabled has ended, it removed an archive
\* and another archive of it had failed.
C1_Witness ==
    /\ pc = "done"
    /\ delete_after
    /\ hist.unlinked # {}
    /\ Failed # {}

\* C2: _delete_archives runs once per run and only after the loop: while the
\* driver scans and extracts it has not run and every queued archive is still
\* on disk; it is entered from a scan that found no new archive; a finished
\* run has called it exactly once.
C2_DeletionAfterLoop ==
    /\ InLoop => /\ hist.deleteCalls = 0
                 /\ hist.unlinked = {}
                 /\ \A p \in Pending : IsFile(fs, p)
    /\ pc = "delete" => /\ hist.deleteCalls = 0
                        /\ all_archives = <<>>
                        /\ \A p \in DOMAIN fs : ~Wanted(fs, p, processed_files)
    /\ pc = "done" => hist.deleteCalls = 1

\* C2 witness: a run of more than one round has ended and its deletion step
\* removed a queued archive.
C2_Witness ==
    /\ pc = "done"
    /\ round_num > 2
    /\ hist.unlinked # {}

\* C3, as claimed: after every call of _extract_with_cleanup that returns
\* failure the target exists iff it existed before and has exactly the
\* entries it had before.
C3_RollbackAsClaimed ==
    (hist.last.called /\ ~hist.last.ok) =>
        /\ hist.last.afterExists = hist.last.existed
        /\ hist.last.afterItems = hist.last.items

\* C3, amended: after every call that returns failure the target has every
\* entry it had before and, besides those, only new entries whose removal
\* failed during the cleanup; a target that existed still exists; when no
\* removal failed the target is as before the call (absent if it was absent,
\* else with exactly its former entries).
C3_RollbackBestEffort ==
    (hist.last.called /\ ~hist.last.ok) =>
        /\ hist.last.items \subseteq hist.last.afterItems
        /\ (hist.last.afterItems \ hist.last.items) \subseteq hist.last.stuck
        /\ hist.last.existed => hist.last.afterExists
        /\ hist.last.stuck = {} =>
              /\ hist.last.afterExists = hist.last.existed
              /\ hist.last.afterItems = hist.last.items

\* C3 witness: a call created its target, wrote partial output into it,
\* failed, and removed all of it again.
C3_Witness ==
    /\ hist.last.called
    /\ ~hist.last.ok
    /\ ~hist.last.existed
    /\ hist.last.partial # {}
    /\ hist.last.stuck = {}
    /\ ~hist.last.afterExists

\* the position of the driver in its run, as a number that orders the
\* positions: the run, the round, the archive of the round, the half of the
\* loop body
Rank ==
    ((run * 100 + round_num) * 100 + idx) * 10
        + (CASE pc = "scan" -> 0 [] pc = "mark" -> 0 [] pc = "extract" -> 1
             [] pc = "delete" -> 2 [] OTHER -> 3)

\* C4: termination of extract_all, whether extractions fail or not. Every
\* step of the driver moves it to a strictly later position (no step goes
\* back, so no position repeats); every finished round has added a path to
\* processed_files, which holds only paths of the finite tree, so that the
\* rounds are bounded and the scan is never short of a round; and the loop is
\* left, for the deletions and the return, exactly on a scan that found no
\* archive outside processed_files.
C4_Terminates ==
    /\ [][Rank' > Rank]_vars
    /\ [](round_num - 1 <= Cardinality(processed_files))
    /\ [](pc = "scan" => round_num <= MaxRounds)
    /\ [](pc \in {"delete", "done"} =>
            /\ all_archives = <<>>
            /\ \A p \in DOMAIN fs : ~Wanted(fs, p, processed_files))

\* C4 witness: a run of more than one round has ended and some of its
\* extractions had failed.
C4_Witness ==
    /\ pc = "done"
    /\ round_num > 2
    /\ stats.failed > 0

\* the tree of C5: a.zip holding b.zip holding the plain file f.txt
NestedTree == TreeOf({Place(<<a_zip>>, "zB")})

\* C5: on the tree holding only a.zip (holding b.zip, holding f.txt), a run
\* the environment does not disturb ends after exactly two extraction rounds
\* (round_num is 3 when the last scan finds nothing), both extractions
\* succeeded, and a/, a/b/ and a/b/f.txt exist.
C5_NestedTwoRounds ==
    (pc = "done" /\ hist.fs0 = NestedTree /\ faults = 0) =>
        /\ round_num = 3
        /\ hist.attempts = << <<a_zip>>, <<n_a, b_zip>> >>
        /\ stats.extracted = 2 /\ stats.failed = 0
        /\ IsDir(fs, <<n_a>>)
        /\ IsDir(fs, <<n_a, <<"b">> >>)
        /\ IsFile(fs, <<n_a, <<"b">>, f_txt>>)

\* C5 witness: the undisturbed run on the nested tree has ended.
C5_Witness == pc = "done" /\ hist.fs0 = NestedTree /\ faults = 0

\* no file of the tree is accepted by the classifier
NoArchiveIn(tree) == \A p \in DOMAIN tree : tree[p] = "dir" \/ ~_is_archive(p)

\* C6: on a tree without any file the classifier accepts the driver never
\* enters an extraction round, calls no codec, leaves the tree alone and all
\* its statistics stay zero.
C6_NoArchiveNoWork ==
    NoArchiveIn(hist.fs0) =>
        /\ pc \in {"scan", "delete", "done"}
        /\ round_num = 1
        /\ hist.codecCalls = 0
        /\ hist.attempts = <<>>
        /\ stats = ZeroStats
        /\ fs = hist.fs0

\* C6 witness: a run on a tree that holds a plain file and no archive has ended.
C6_Witness ==
    /\ pc = "done"
    /\ NoArchiveIn(hist.fs0)
    /\ \E p \in DOMAIN hist.fs0 : hist.fs0[p] # "dir"

\* the archive files of a tree
ArchivesOf(f) == {p \in DOMAIN f : IsFile(f, p) /\ _is_archive(p)}

\* C7 (as claimed): a second run, deletion disabled, on the tree a first run
\* left, neither run disturbed by the environment: once it has ended it has
\* attempted every archive of that tree, and no archive that succeeded in the
\* first run is among its failures.
C7_SecondRunAsClaimed ==
    (run = 2 /\ faults = 0) =>
        /\ pc = "done" => ArchivesOf(hist.prev.fs) \subseteq Attempted
        /\ \A p \in hist.prev.succeeded : p \notin Failed

\* C8 (as claimed): an extraction whose target was filled by an earlier
\* successful extraction of the same run, and whose extraction method
\* returned True, is reported as a success.
C8_MergeAsClaimed ==
    (hist.last.called /\ hist.last.merge /\ hist.last.codecOk) => hist.last.ok

\* the first idx - 1 archives of the round in progress, or all of them once
\* the round is over
DoneOfRound ==
    IF pc \in {"mark", "extract"}
    THEN {all_archives[i] : i \in 1..(idx - 1)}
    ELSE {all_archives[i] : i \in DOMAIN all_archives}

\* C9: failure isolation. Every call of _extract_with_cleanup is counted,
\* as extracted or as failed, and a failure is counted once; whatever failed
\* before, every archive of the round's list is attempted in its turn, the
\* loop is left only on a scan that found nothing, and the run that has
\* ended has attempted every archive of the tree it started on.
C9_FailureIsolation ==
    /\ stats.failed = Cardinality(Failed)
    /\ stats.extracted = Cardinality(hist.succeeded)
    /\ stats.extracted + stats.failed = Len(hist.attempts)
    /\ DoneOfRound \subseteq Attempted
    /\ pc \in {"delete", "done"} =>
        /\ all_archives = <<>>
        /\ ArchivesOf(hist.fs0) \subseteq Attempted

\* C9 witness: a run has ended in which an extraction failed and an archive
\* found with it, and an archive of a later round, were extracted after it.
C9_Witness ==
    /\ pc = "done"
    /\ \E i, j, k \in DOMAIN hist.attempts :
        /\ i < j /\ j < k
        /\ hist.attempts[i] \in Failed
        /\ hist.attempts[j] \in hist.succeeded
        /\ hist.attempts[k] \in hist.succeeded
        /\ Parent(hist.attempts[j]) = Parent(hist.attempts[i])
        /\ Parent(hist.attempts[k]) # Parent(hist.attempts[i])

\* C10: within a run no path is handed to _extract_with_cleanup twice, the
\* attempted paths are in processed_files, and processed_files only grows
\* (a new driver starts with its own, empty set).
C10_AtMostOnce ==
    /\ [](\A i, j \in DOMAIN hist.attempts :
            i # j => hist.attempts[i] # hist.attempts[j])
    /\ []({PathStr(a) : a \in Attempted} \subseteq processed_files)
    /\ [][run' = run => processed_files \subseteq processed_files']_vars

\* C10 witness: a run has ended in which an extraction failed and a later
\* extraction wrote a file at a path attempted before.
C10_Witness ==
    /\ pc = "done"
    /\ hist.rewritten # {}
    /\ Failed # {}

\* C11: while deletion was not requested pending_deletions is empty, the
\* deletion step has removed nothing, stats['deleted'] is 0 and every
\* archive extracted is still on disk, whatever their number.
C11_NoDeletionUnasked ==
    ~delete_after =>
        /\ pending_deletions = <<>>
        /\ hist.unlinked = {}
        /\ stats.deleted = 0
        /\ \A p \in hist.succeeded : IsFile(fs, p)

\* C11 witness: a run without deletion has ended, its deletion step was
\* called, and it had extracted two archives.
C11_Witness ==
    /\ ~delete_after
    /\ pc = "done"
    /\ hist.deleteCalls = 1
    /\ stats.extracted >= 2

\* C12: the dry run has one report line for each file of the tree the
\* classifier accepts, and for nothing else, with the file's size and the
\* target _get_extraction_path resolves for it; no extraction method was
\* called, no transaction was run, and the tree is the tree it started on.
C12_PreviewOnlyReports ==
    pc = "previewed" =>
        /\ {Append(hist.report[i].from, hist.report[i].name) : i \in DOMAIN hist.report}
               = ArchivesOf(hist.fs0)
        /\ Len(hist.report) = Cardinality(ArchivesOf(hist.fs0))
        /\ \A i \in DOMAIN hist.report :
            LET archive == Append(hist.report[i].from, hist.report[i].name)
            IN  /\ hist.report[i].to = _get_extraction_path(archive)
                /\ hist.report[i].size = Catalogue[hist.fs0[archive]].size
                /\ ~Exists(hist.fs0, hist.report[i].to) => ~Exists(fs, hist.report[i].to)
        /\ hist.codecCalls = 0
        /\ hist.attempts = <<>>
        /\ stats = ZeroStats
        /\ fs = hist.fs0

\* C12 witness: the dry run has reported two archives, one of them in a
\* subfolder, and the target of one of them does not exist.
C12_Witness ==
    /\ pc = "previewed"
    /\ Len(hist.report) = 2
    /\ \E i \in DOMAIN hist.report : hist.report[i].from # <<>>
    /\ \E i \in DOMAIN hist.report : ~Exists(fs, hist.report[i].to)

\* the extensions of the classifier table
C13_Extensions ==
    { <<".", "z", "i", "p">>, <<".", "r", "a", "r">>, <<".", "7", "z">>,
      <<".", "t", "a", "r">>, <<".", "g", "z">>, <<".", "b", "z", "2">>,
      <<".", "t", "g", "z">>, <<".", "t", "a", "r", ".", "g", "z">>,
      <<".", "t", "a", "r", ".", "b", "z", "2">> }

\* the name, in lower case, ends with an extension of the table
C13_NameMatches(name) == \E ext \in C13_Extensions : EndsWith(LowerStr(name), ext)

\* the files of a tree
FilesOf(f) == {p \in DOMAIN f : f[p] # "dir"}

\* C13: _is_archive is true of a file exactly when its name, in lower case,
\* ends with an extension of the table, and the first scan of the driver
\* lists exactly those files; b.zip, b.tar.gz, b.tar.bz2, b.tgz, b.rar, b.7z,
\* b.gz and b.bz2 are archives, b.txt, b.pdf and b are not.
C13_Classifier ==
    /\ \A p \in FilesOf(fs) : _is_archive(p) <=> C13_NameMatches(Name(p))
    /\ (run = 1 /\ round_num = 1 /\ pc \in {"mark", "extract", "delete", "done"}) =>
            {all_archives[i] : i \in DOMAIN all_archives}
                = {p \in FilesOf(hist.fs0) : C13_NameMatches(Name(p))}
    /\ \A n \in { <<"b", ".", "z", "i", "p">>, <<"b", ".", "t", "a", "r", ".", "g", "z">>,
                  <<"b", ".", "t", "a", "r", ".", "b", "z", "2">>,
                  <<"b", ".", "t", "g", "z">>, <<"b", ".", "r", "a", "r">>,
                  <<"b", ".", "7", "z">>, <<"b", ".", "g", "z">>,
                  <<"b", ".", "b", "z", "2">> } :
            n \in TestNames /\ _is_archive(<<n>>) /\ _is_archive(<<n_a, n>>)
    /\ \A n \in { <<"b", ".", "t", "x", "t">>, <<"b", ".", "p", "d", "f">>, <<"b">> } :
            n \in TestNames /\ ~_is_archive(<<n>>) /\ ~_is_archive(<<n_a, n>>)

\* C13 witness: the first scan has listed a file whose extension is spelled
\* in upper case.
C13_Witness ==
    /\ run = 1 /\ round_num = 1 /\ pc = "mark"
    /\ Name(all_archives[1]) \in { <<"b", ".", "Z", "I", "P">>,
                                   <<"b", ".", "T", "A", "R", ".", "G", "Z">> }

\* the name without its extension as C14 states it: without .tar.gz or
\* .tar.bz2 when the name, in lower case, ends with one of them, and the
\* stem otherwise
C14_BaseName(name) ==
    IF EndsWith(LowerStr(name), <<".", "t", "a", "r", ".", "g", "z">>)
    THEN SubSeq(name, 1, Len(name) - 7)
    ELSE IF EndsWith(LowerStr(name), <<".", "t", "a", "r", ".", "b", "z", "2">>)
    THEN SubSeq(name, 1, Len(name) - 8)
    ELSE Stem(name)

\* C14 (as claimed): the target resolved for an archive the scan accepted is
\* its parent joined with its name stripped of .tar.gz or .tar.bz2, in any
\* letter case, or of its last suffix.
C14_PlacementAsClaimed ==
    pc = "extract" =>
        LET archive_path == all_archives[idx]
            base_name == C14_BaseName(Name(archive_path))
        IN  extract_to = IF base_name = <<>> THEN Parent(archive_path)
                         ELSE Append(Parent(archive_path), base_name)

\* C15: the target resolved with the hierarchy maintained and the target
\* resolved without are the same directory, for every archive a scan of
\* the driver has listed; the target the driver extracts into is the one
\* the other mode resolves, and nothing else of the driver reads the mode.
C15_LayoutIndependent ==
    /\ pc = "mark" =>
        \A i \in DOMAIN all_archives :
            ExtractionPathIn(TRUE, all_archives[i]) = ExtractionPathIn(FALSE, all_archives[i])
    /\ pc = "extract" =>
        extract_to = ExtractionPathIn(~maintain_hierarchy, all_archives[idx])

\* C15 witness: with the hierarchy maintained the driver is about to extract
\* an archive that does not lie in the source folder.
C15_Witness ==
    /\ pc = "extract"
    /\ maintain_hierarchy
    /\ Parent(all_archives[idx]) # <<>>
    /\ IsFile(fs, all_archives[idx])

\* the archive is of a format whose optional library is not installed
FormatSkipped(archive_path) ==
    \/ _get_extract_method(archive_path) = "rar" /\ ~HAS_RAR
    \/ _get_extract_method(archive_path) = "7z" /\ ~HAS_7Z

\* C16 (as claimed): an archive whose format is skipped for want of its
\* library is not counted in stats['failed']: the counter is the number of
\* the other archives whose extraction failed.
C16_SkippedAsClaimed ==
    stats.failed = Cardinality({p \in Failed : ~FormatSkipped(p)})

\* C17 (as claimed): when the source folder is missing or cannot be read the
\* run is aborted before the loop: the driver never scans, never reaches the
\* deletions and the summary.
C17_AbortAsClaimed ==
    ~IsDir(hist.fs0, <<>>) => pc \in {"main", "exit"}

\* C18: a call of _extract_with_cleanup whose extraction method returned
\* True and which found no entry in the target that was not there before
\* returns False; the archive is among the failed ones, the failed counter
\* counts it, and it is not in pending_deletions.
C18_NoOutputGuard ==
    (hist.last.called /\ hist.last.codecOk /\ hist.last.partial = {}) =>
        /\ ~hist.last.ok
        /\ hist.last.archive \in Failed
        /\ stats.failed = Cardinality(Failed)
        /\ hist.last.archive \notin Pending
        /\ hist.last.afterItems = hist.last.items

\* C18 witness: in a run with deletion requested the extraction method
\* returned True for an intact archive and the target gained no entry.
C18_Witness ==
    /\ delete_after
    /\ hist.last.called /\ hist.last.codecOk /\ hist.last.partial = {}
    /\ hist.last.existed
    /\ IsFile(fs, hist.last.archive)

\* C19: frame of _extract_with_cleanup, whatever it returns. Every entry the
\* target had before the call is an entry of it afterwards, and a target that
\* existed still exists. After a failure the entries that are not from
\* before are those whose removal failed, and the target is gone only if it
\* did not exist before the call and is left without any entry.
C19_TransactionFrame ==
    hist.last.called =>
        /\ hist.last.items \subseteq hist.last.afterItems
        /\ hist.last.existed => hist.last.afterExists
        /\ ~hist.last.ok =>
            /\ hist.last.afterItems \ hist.last.items \subseteq hist.last.stuck
            /\ ~hist.last.afterExists =>
                  ~hist.last.existed /\ hist.last.partial \cap hist.last.stuck = {}
            /\ (~hist.last.existed /\ hist.last.afterExists) =>
                  hist.last.stuck # {}

\* C19 witness: an extraction into a target that held an entry failed after
\* it had written a new one, and the rollback removed the new entry only.
C19_Witness ==
    /\ hist.last.called /\ ~hist.last.ok
    /\ hist.last.existed
    /\ hist.last.items # {}
    /\ hist.last.partial # {}
    /\ hist.last.afterItems = hist.last.items

\* C20: the path of an archive is in processed_files from the step of the
\* loop body that precedes the resolution of its target and its extraction:
\* it is there whenever the driver is about to call _extract_with_cleanup on
\* it, the step that leaves "mark" has put it there, and every call of
\* _extract_with_cleanup starts with its archive in the set.
C20_MarkedBeforeExtract ==
    /\ [](pc = "extract" => PathStr(all_archives[idx]) \in processed_files)
    /\ [][(pc = "mark" /\ pc' = "extract") =>
            /\ PathStr(all_archives[idx]) \in processed_files'
            /\ extract_to' = _get_extraction_path(all_archives[idx])]_vars
    /\ [][(run' = run /\ hist.attempts' # hist.attempts) =>
            /\ pc = "extract"
            /\ hist.attempts' = Append(hist.attempts, all_archives[idx])
            /\ PathStr(all_archives[idx]) \in processed_files]_vars

\* C20 witness: the driver is about to extract an archive of a later round,
\* found in a folder an earlier extraction created.
C20_Witness ==
    /\ pc = "extract"
    /\ round_num >= 2
    /\ all_archives[idx] \notin DOMAIN hist.fs0
    /\ PathStr(all_archives[idx]) \in processed_files

\* C21: once the loop is left (deletions pending or done, summary printed)
\* every file of the tree the classifier accepts has its path in
\* processed_files and was handed to _extract_with_cleanup in this run.
C21_FixedPoint ==
    pc \in {"delete", "done"} =>
        \A p \in ArchivesOf(fs) :
            /\ PathStr(p) \in processed_files
            /\ p \in Attempted

\* C21 witness: a run without deletion has ended on a tree that holds an
\* archive the initial tree did not hold, and an archive that failed.
C21_Witness ==
    /\ pc = "done"
    /\ ~delete_after
    /\ \E p \in ArchivesOf(fs) : p \notin DOMAIN hist.fs0
    /\ \E p \in ArchivesOf(fs) : p \in Failed

\* the archives of the list of this round
Listed == {all_archives[i] : i \in DOMAIN all_archives}

C23_InterruptionSafe ==
    InLoop => \A p \in Attempted \cup Listed \cup Pending : IsFile(fs, p)

C23_Witness ==
    /\ pc = "mark"
    /\ delete_after
    /\ Pending # {}
    /\ Failed # {}
    /\ hist.last.called /\ ~hist.last.ok /\ hist.last.partial # {}
    /\ all_archives[idx] \notin Attempted

\* C24: the deletion step visits the pending list in order. A path that no
\* longer exists gets no line and no count; every path that exists is tried,
\* in the order of the list, also after an unlink that failed; the paths
\* removed are those whose unlink succeeded, nothing else of the tree changes,
\* and the deleted counter grows by the number of paths removed.
C24_FlushTolerance ==
    [][(pc = "delete" /\ pc' = "done") =>
        LET present == SelectSeq(pending_deletions, LAMBDA p : Exists(fs, p))
            printed == hist'.flush
            removed == {printed[i].path : i \in {j \in DOMAIN printed : printed[j].ok}}
            failed == {i \in DOMAIN printed : ~printed[i].ok}
        IN  /\ delete_after => /\ Len(printed) = Len(present)
                               /\ \A i \in DOMAIN printed : printed[i].path = present[i]
            /\ ~delete_after => printed = <<>>
            /\ Cardinality(failed) = faults' - faults
            /\ DOMAIN fs' = DOMAIN fs \ removed
            /\ \A p \in DOMAIN fs' : fs'[p] = fs[p]
            /\ stats'.deleted = stats.deleted + Cardinality(removed)
            /\ stats'.deleted = Cardinality(DOMAIN fs \ DOMAIN fs')]_vars

C24_Witness ==
    /\ pc = "done"
    /\ Len(hist.flush) < Len(pending_deletions)
    /\ \E i, j \in DOMAIN hist.flush : i < j /\ ~hist.flush[i].ok /\ hist.flush[j].ok

\* the suffixes C25 gives to the tar-family codec
C25_TarSuffixes ==
    { <<".", "t", "a", "r">>, <<".", "g", "z">>, <<".", "b", "z", "2">>,
      <<".", "t", "g", "z">>, <<".", "t", "a", "r", ".", "g", "z">>,
      <<".", "t", "a", "r", ".", "b", "z", "2">> }

\* the codec C25 gives to a name
C25_Codec(name) ==
    LET n == LowerStr(name)
    IN  { c \in {"zip", "rar", "7z", "tar"} :
            \/ c = "zip" /\ EndsWith(n, <<".", "z", "i", "p">>)
            \/ c = "rar" /\ EndsWith(n, <<".", "r", "a", "r">>)
            \/ c = "7z" /\ EndsWith(n, <<".", "7", "z">>)
            \/ c = "tar" /\ \E s \in C25_TarSuffixes : EndsWith(n, s) }

\* C25: for every file the classifier accepts, the method selected is the
\* one codec the suffix of the name (in lower case) names: zip for .zip, rar
\* for .rar, seven-zip for .7z, tar for .tar, .gz, .bz2, .tgz, .tar.gz and
\* .tar.bz2; and an extraction method that returned True read an archive of
\* the format the suffix names.
C25_CodecSelection ==
    /\ \A p \in FilesOf(fs) :
            _is_archive(p) => C25_Codec(Name(p)) = {_get_extract_method(p)}
    /\ (hist.last.called /\ hist.last.codecOk /\ IsFile(hist.fs0, hist.last.archive)) =>
            C25_Codec(Name(hist.last.archive))
                = {Catalogue[hist.fs0[hist.last.archive]].fmt}

\* C25 witness: an archive whose suffix is spelled in upper case was
\* extracted, by the seven-zip method or by the tar method.
C25_Witness ==
    /\ hist.last.called /\ hist.last.ok
    /\ Name(hist.last.archive) \in { <<"b", ".", "7", "Z">>,
                                     <<"b", ".", "T", "A", "R", ".", "G", "Z">> }

\* the sizes of the first i attempted archives that were extracted, each as
\* it was when it was handed to the extraction
RECURSIVE C26_SizeOfSucceeded(_)
C26_SizeOfSucceeded(i) ==
    IF i = 0 THEN 0
    ELSE C26_SizeOfSucceeded(i - 1)
            + (IF hist.attempts[i] \in hist.succeeded
               THEN Catalogue[hist.contents[i]].size ELSE 0)

\* C26: an extraction that succeeds adds 1 to extracted and the size of its
\* archive to total_size and changes no other counter; one that fails adds 1
\* to failed and leaves extracted, total_size and deleted as they were; so
\* total_size is the sum of the sizes of the archives that were extracted.
C26_StatsPerOutcome ==
    /\ [][pc = "extract" =>
            LET size == Catalogue[fs[all_archives[idx]]].size
            IN  IF hist'.last.ok
                THEN stats' = [stats EXCEPT !.extracted = @ + 1, !.total_size = @ + size]
                ELSE /\ stats'.failed = stats.failed + 1
                     /\ stats'.extracted = stats.extracted
                     /\ stats'.total_size = stats.total_size
                     /\ stats'.deleted = stats.deleted]_vars
    /\ [](stats.total_size = C26_SizeOfSucceeded(Len(hist.attempts)))

\* C26 witness: at the end of a run archives of different sizes were
\* extracted and another one, of a size that is not 0, failed.
C26_Witness ==
    /\ pc = "done"
    /\ \E i, j, k \in DOMAIN hist.attempts :
        /\ hist.attempts[i] \in hist.succeeded
        /\ hist.attempts[j] \in hist.succeeded
        /\ Catalogue[hist.contents[i]].size # Catalogue[hist.contents[j]].size
        /\ hist.attempts[k] \notin hist.succeeded
        /\ Catalogue[hist.contents[k]].size > 0

\* C27 (as claimed): a second run, deletion disabled, on the tree a first
\* run left, neither run disturbed by the environment: once it has ended the
\* tree has the files and directories it had when the first run ended,
\* nothing added and nothing removed.
C27_RestartAsClaimed ==
    (run = 2 /\ pc = "done") => DOMAIN fs = DOMAIN hist.prev.fs

\* C28: between two archives, at the scans, at the deletions and at the end,
\* extracted + failed is the number of paths in processed_files (one less
\* while an archive is marked and not yet extracted); the processed paths are
\* the attempted archives, each attempted once and counted once, as a success
\* or as a failure.
C28_Accounting ==
    /\ pc # "extract" => stats.extracted + stats.failed = Cardinality(processed_files)
    /\ pc = "extract" => stats.extracted + stats.failed + 1 = Cardinality(processed_files)
    /\ pc # "extract" => processed_files = {PathStr(p) : p \in Attempted}
    /\ Cardinality(Attempted) = Len(hist.attempts)
    /\ stats.extracted + stats.failed = Len(hist.attempts)
    /\ stats.extracted = Cardinality(hist.succeeded)
    /\ hist.succeeded \subseteq Attempted

\* C28 witness: a run has ended with three or more archives attempted, some
\* extracted and some failed.
C28_Witness ==
    /\ pc = "done"
    /\ Cardinality(processed_files) >= 3
    /\ stats.extracted > 0
    /\ stats.failed > 0

\* C29: with deletion requested, pending_deletions holds no path twice, every
\* path of it is in processed_files, and its length is the extracted counter
\* in every state; deleted never exceeds extracted.
C29_PendingList ==
    /\ delete_after =>
        /\ \A i, j \in DOMAIN pending_deletions :
                pending_deletions[i] = pending_deletions[j] => i = j
        /\ \A i \in DOMAIN pending_deletions :
                PathStr(pending_deletions[i]) \in processed_files
        /\ Len(pending_deletions) = stats.extracted
        /\ Pending = hist.succeeded
    /\ stats.deleted <= stats.extracted
    /\ pc # "done" => stats.deleted = 0

\* C29 witness: a run with deletion requested has ended; two or more
\* archives were queued, one extraction failed, and an unlink failed, so that
\* deleted is less than extracted.
C29_Witness ==
    /\ pc = "done"
    /\ delete_after
    /\ Len(pending_deletions) >= 2
    /\ stats.failed > 0
    /\ 0 < stats.deleted
    /\ stats.deleted < stats.extracted

\* C30: cleaned_up moves only on an extraction step that fails, by at most 1,
\* and never on one that succeeds; no other step of a run changes it; so
\* cleaned_up <= failed in every state.
C30_CleanupCounter ==
    /\ [][pc = "extract" =>
            /\ stats'.cleaned_up - stats.cleaned_up \in {0, 1}
            /\ hist'.last.ok => stats'.cleaned_up = stats.cleaned_up
            /\ stats'.cleaned_up # stats.cleaned_up => stats'.failed = stats.failed + 1]_vars
    /\ [][(pc # "extract" /\ run' = run) => stats'.cleaned_up = stats.cleaned_up]_vars
    /\ [](stats.cleaned_up <= stats.failed)

\* C30 witness: after a success, a failure that was cleaned up and a failure
\* that was not, cleaned_up is positive and less than failed.
C30_Witness ==
    /\ stats.extracted > 0
    /\ 0 < stats.cleaned_up
    /\ stats.cleaned_up < stats.failed

====
